---- MODULE Spec2Model ----
(***************************************************************************)
(* Static type checking of simple Java expressions                         *)
(* (java_type_checker/expressions.py).                                     *)
(*                                                                         *)
(* An expression tree is built once (Init draws every tree of at most      *)
(* MaxNodes nodes over a small class table) and then one of the two        *)
(* operations of the Expression interface is applied to its root:          *)
(* check_types() or static_type().  Both are pure recursive tree walks;    *)
(* they are modelled as recursive operators that follow the Python code    *)
(* statement by statement, including the order in which child nodes are    *)
(* visited and the failures that are not JavaTypeError.                    *)
(***************************************************************************)
EXTENDS Integers, Sequences, FiniteSets, TLC

VARIABLES expr, pc, result

vars == <<expr, pc, result>>

(***************************************************************************)
(* Bounds of the model.                                                    *)
(***************************************************************************)
\* Largest number of nodes of an expression tree.
MaxNodes == 3

(***************************************************************************)
(* The type hierarchy (module .types, consumed read-only).                 *)
(***************************************************************************)
\* Type.int, Type.boolean, Type.double
PrimitiveTypes == {"int", "boolean", "double"}

\* Type.null
NullType == "null"

\* The class table the expressions are checked against:
\*   Object                    Object()              Object g(Object)
\*   Shape  extends Object     Shape(int)            boolean f(int)
\*                                                   Object g(Shape, int)
\*   Circle extends Shape      Circle(Shape, Object) Circle f(Shape)
\*                                                   double g()
ClassTable ==
    [Object |->
        [direct_supertypes |-> {},
         constructor |-> [argument_types |-> <<>>],
         methods |-> [g |-> [name |-> "g", return_type |-> "Object",
                             argument_types |-> <<"Object">>]]],
     Shape |->
        [direct_supertypes |-> {"Object"},
         constructor |-> [argument_types |-> <<"int">>],
         methods |-> [f |-> [name |-> "f", return_type |-> "boolean",
                             argument_types |-> <<"int">>],
                      g |-> [name |-> "g", return_type |-> "Object",
                             argument_types |-> <<"Shape", "int">>]]],
     Circle |->
        [direct_supertypes |-> {"Shape"},
         constructor |-> [argument_types |-> <<"Shape", "Object">>],
         methods |-> [f |-> [name |-> "f", return_type |-> "Circle",
                             argument_types |-> <<"Shape">>],
                      g |-> [name |-> "g", return_type |-> "double",
                             argument_types |-> <<>>]]]]

ClassTypes == DOMAIN ClassTable

Types == PrimitiveTypes \cup {NullType} \cup ClassTypes

MethodNames == {"f", "g"}

\* The absence indicator of a method lookup (Python's None).
None == [name |-> "None"]

\* Type.direct_supertypes
direct_supertypes(t) ==
    IF t \in ClassTypes THEN ClassTable[t].direct_supertypes ELSE {}

\* Type.method_named(name): the signature the type itself declares, or None.
method_named(t, name) ==
    IF t \in ClassTypes /\ name \in DOMAIN ClassTable[t].methods
    THEN ClassTable[t].methods[name]
    ELSE None

\* Type.constructor
constructor(t) == ClassTable[t].constructor

(***************************************************************************)
(* Expression nodes: the constructors of the five classes.                 *)
(***************************************************************************)
Variable(name, declared_type) ==
    [class |-> "Variable", name |-> name, declared_type |-> declared_type]

Literal(value, type) ==
    [class |-> "Literal", value |-> value, type |-> type]

NullLiteral ==
    [class |-> "NullLiteral", value |-> "null", type |-> NullType]

MethodCall(receiver, method_name, args) ==
    [class |-> "MethodCall", receiver |-> receiver,
     method_name |-> method_name, args |-> args]

ConstructorCall(instantiated_type, args) ==
    [class |-> "ConstructorCall", instantiated_type |-> instantiated_type,
     args |-> args]

(***************************************************************************)
(* Outcomes.  A JavaTypeError is identified by the message template of the *)
(* raise statement that produced it.                                       *)
(***************************************************************************)
Ok == "ok"
NotInstantiableReceiver == "NotInstantiableReceiver"   \* "Type {0} does not have methods"
UnknownMethod == "UnknownMethod"                       \* "{0} has no method named {1}"
NotInstantiableType == "NotInstantiableType"           \* "Type {0} is not instantiable"
ArityMismatch == "ArityMismatch"                       \* "Wrong number of arguments for ..."
ArgumentTypeMismatch == "ArgumentTypeMismatch"         \* "{0} expects arguments of type ..."

JavaTypeError ==
    {NotInstantiableReceiver, UnknownMethod, NotInstantiableType,
     ArityMismatch, ArgumentTypeMismatch}

\* An attribute read on None: an exception that is not a JavaTypeError.
AttributeError == "AttributeError"

(***************************************************************************)
(* static_type().                                                          *)
(***************************************************************************)
RECURSIVE static_type(_)

\* Variable.static_type
Variable_static_type(e) == e.declared_type

\* Literal.static_type
Literal_static_type(e) == e.type

\* NullLiteral.static_type
NullLiteral_static_type(e) == NullType

\* `method.return_type`: an attribute read, which fails on None.
return_type_of(method) ==
    IF method = None THEN AttributeError ELSE method.return_type

\* MethodCall.static_type: the receiver's static type, the method of that
\* name on it, and the method's return type.  A failure in the receiver
\* propagates.
MethodCall_static_type(e) ==
    LET objType == static_type(e.receiver)
    IN  IF objType = AttributeError
        THEN AttributeError
        ELSE return_type_of(method_named(objType, e.method_name))

\* ConstructorCall.static_type
ConstructorCall_static_type(e) == e.instantiated_type

\* Dynamic dispatch of e.static_type() on the class of e.
static_type(e) ==
    CASE e.class = "Variable"        -> Variable_static_type(e)
      [] e.class = "Literal"         -> Literal_static_type(e)
      [] e.class = "NullLiteral"     -> NullLiteral_static_type(e)
      [] e.class = "MethodCall"      -> MethodCall_static_type(e)
      [] e.class = "ConstructorCall" -> ConstructorCall_static_type(e)

(***************************************************************************)
(* The calls a walk makes on the nodes below the one it starts from.  A    *)
(* node is named by its path from the root: 0 steps to the receiver, i to  *)
(* the i-th argument (args[i-1] in the Python code).                       *)
(***************************************************************************)
Call(op, path) == [op |-> op, path |-> path]

RECURSIVE static_calls(_, _)

\* The static_type() calls made below node e by e.static_type(): only
\* MethodCall recurses, into its receiver, before it looks anything up.
static_calls(e, path) ==
    IF e.class = "MethodCall"
    THEN <<Call("static_type", path \o <<0>>)>>
            \o static_calls(e.receiver, path \o <<0>>)
    ELSE <<>>

(***************************************************************************)
(* check_types().  The value is the outcome and the calls made on the      *)
(* nodes below, in order.                                                  *)
(***************************************************************************)
Outcome(outcome, calls) == [outcome |-> outcome, calls |-> calls]

RECURSIVE check_types(_, _)
RECURSIVE collect_passedArgTypes(_, _, _, _)
RECURSIVE MethodCall_check_args(_, _, _, _, _, _)
RECURSIVE ConstructorCall_check_args(_, _, _, _, _, _)

\* Variable.check_types: pass
Variable_check_types(e, path) == Outcome(Ok, <<>>)

\* Literal.check_types (inherited by NullLiteral): pass
Literal_check_types(e, path) == Outcome(Ok, <<>>)

\* `for e in self.args: passedArgTypes.append(e.static_type())`, from
\* argument i on: every argument's static type is computed before any
\* argument is validated, and the first failure ends the whole check.
collect_passedArgTypes(args, i, path, acc) ==
    IF i > Len(args)
    THEN acc
    ELSE LET t == static_type(args[i])
             calls == acc.calls \o <<Call("static_type", path \o <<i>>)>>
                        \o static_calls(args[i], path \o <<i>>)
         IN  IF t = AttributeError
             THEN [failed |-> TRUE, types |-> acc.types, calls |-> calls]
             ELSE collect_passedArgTypes(args, i + 1, path,
                     [failed |-> FALSE, types |-> Append(acc.types, t),
                      calls |-> calls])

\* MethodCall_primitives with Type.double left out of the list.
MethodCall_primitives_without_double == {"int", "boolean"}

\* primitives = [Type.int, Type.boolean, Type.double] in MethodCall.check_types
MethodCall_primitives == {"int", "boolean", "double"}

\* primitives = [Type.int, Type.boolean, Type.double] in ConstructorCall.check_types
ConstructorCall_primitives == {"int", "boolean", "double"}

\* MethodCall_has_method asking whether the type has any method at all
\* instead of the one that is called.
MethodCall_has_method_any(objType, method_name) ==
    \E n \in MethodNames : method_named(objType, n) # None

\* `if objType.method_named(self.method_name):`
MethodCall_has_method(objType, method_name) ==
    method_named(objType, method_name) # None

\* `method.argument_types`: an attribute read, which fails on None.
argument_types_of(method) ==
    IF method = None THEN AttributeError ELSE method.argument_types

\* MethodCall_arity_matches rejecting only a call with too many arguments.
MethodCall_arity_matches_at_most(args, argument_types) ==
    Len(args) <= Len(argument_types)

\* `if len(self.args) == len(method.argument_types):`
MethodCall_arity_matches(args, argument_types) ==
    Len(args) = Len(argument_types)

\* `if len(self.args) == len(expectedArgTypes):`
ConstructorCall_arity_matches(args, expectedArgTypes) ==
    Len(args) = Len(expectedArgTypes)

\* MethodCall_arg_accepted widening over two levels of supertypes.
MethodCall_arg_accepted_transitive(passed, expected) ==
    \/ passed = expected
    \/ expected \in direct_supertypes(passed)
    \/ \E s \in direct_supertypes(passed) : expected \in direct_supertypes(s)
    \/ passed = NullType

\* MethodCall_arg_accepted without the widening branch.
MethodCall_arg_accepted_exact(passed, expected) ==
    \/ passed = expected
    \/ passed = NullType

\* The if/elif chain of MethodCall.check_types on one argument position.
MethodCall_arg_accepted(passed, expected) ==
    \/ passed = expected
    \/ expected \in direct_supertypes(passed)
    \/ passed = NullType

\* ConstructorCall_arg_accepted with the null branch of MethodCall: null is
\* taken at a primitive position too.
ConstructorCall_arg_accepted_any_null(passed, expected) ==
    \/ passed = expected
    \/ expected \in direct_supertypes(passed)
    \/ passed = NullType

\* The if/elif chain of ConstructorCall.check_types on one argument position.
ConstructorCall_arg_accepted(passed, expected) ==
    \/ passed = expected
    \/ expected \in direct_supertypes(passed)
    \/ (passed = NullType /\ expected \notin ConstructorCall_primitives)

\* `for i in range(0, len(self.args)):` of MethodCall.check_types, from
\* argument i on: validate the argument, then compare its type.
MethodCall_check_args(args, passedArgTypes, argument_types, i, path, calls) ==
    IF i > Len(args)
    THEN Outcome(Ok, calls)
    ELSE LET r == check_types(args[i], path \o <<i>>)
             calls2 == calls \o <<Call("check_types", path \o <<i>>)>> \o r.calls
         IN  IF r.outcome # Ok
             THEN Outcome(r.outcome, calls2)
             ELSE IF MethodCall_arg_accepted(passedArgTypes[i], argument_types[i])
             THEN MethodCall_check_args(args, passedArgTypes, argument_types,
                                        i + 1, path, calls2)
             ELSE Outcome(ArgumentTypeMismatch, calls2)

\* `for i in range(0, len(self.args)):` of ConstructorCall.check_types.
ConstructorCall_check_args(args, passedArgTypes, expectedArgTypes, i, path, calls) ==
    IF i > Len(args)
    THEN Outcome(Ok, calls)
    ELSE LET r == check_types(args[i], path \o <<i>>)
             calls2 == calls \o <<Call("check_types", path \o <<i>>)>> \o r.calls
         IN  IF r.outcome # Ok
             THEN Outcome(r.outcome, calls2)
             ELSE IF ConstructorCall_arg_accepted(passedArgTypes[i], expectedArgTypes[i])
             THEN ConstructorCall_check_args(args, passedArgTypes, expectedArgTypes,
                                             i + 1, path, calls2)
             ELSE Outcome(ArgumentTypeMismatch, calls2)

\* MethodCall.check_types
MethodCall_check_types(e, path) ==
    LET objType == static_type(e.receiver)
        calls0 == <<Call("static_type", path \o <<0>>)>>
                    \o static_calls(e.receiver, path \o <<0>>)
    IN  IF objType = AttributeError
        THEN Outcome(AttributeError, calls0)
        ELSE IF objType \in MethodCall_primitives
        THEN Outcome(NotInstantiableReceiver, calls0)
        ELSE IF ~MethodCall_has_method(objType, e.method_name)
        THEN Outcome(UnknownMethod, calls0)
        ELSE
        LET method == method_named(objType, e.method_name)
            argument_types == argument_types_of(method)
        IN  IF argument_types = AttributeError
            THEN Outcome(AttributeError, calls0)
            ELSE IF ~MethodCall_arity_matches(e.args, argument_types)
            THEN Outcome(ArityMismatch, calls0)
            ELSE
            LET passed == collect_passedArgTypes(e.args, 1, path,
                             [failed |-> FALSE, types |-> <<>>, calls |-> calls0])
            IN  IF passed.failed
                THEN Outcome(AttributeError, passed.calls)
                ELSE MethodCall_check_args(e.args, passed.types, argument_types,
                                           1, path, passed.calls)

\* ConstructorCall.check_types
ConstructorCall_check_types(e, path) ==
    IF e.instantiated_type \in ConstructorCall_primitives
    THEN Outcome(NotInstantiableType, <<>>)
    ELSE IF e.instantiated_type = NullType
    THEN Outcome(NotInstantiableType, <<>>)
    ELSE
    LET expectedArgTypes == constructor(e.instantiated_type).argument_types
    IN  IF ~ConstructorCall_arity_matches(e.args, expectedArgTypes)
        THEN Outcome(ArityMismatch, <<>>)
        ELSE
        LET passed == collect_passedArgTypes(e.args, 1, path,
                         [failed |-> FALSE, types |-> <<>>, calls |-> <<>>])
        IN  IF passed.failed
            THEN Outcome(AttributeError, passed.calls)
            ELSE ConstructorCall_check_args(e.args, passed.types, expectedArgTypes,
                                            1, path, passed.calls)

\* Dynamic dispatch of e.check_types() on the class of e.
check_types(e, path) ==
    CASE e.class = "Variable"        -> Variable_check_types(e, path)
      [] e.class = "Literal"         -> Literal_check_types(e, path)
      [] e.class = "NullLiteral"     -> Literal_check_types(e, path)
      [] e.class = "MethodCall"      -> MethodCall_check_types(e, path)
      [] e.class = "ConstructorCall" -> ConstructorCall_check_types(e, path)

(***************************************************************************)
(* The expression trees.  A tree is built bottom-up by the constructors    *)
(* of the node classes; the argument lists a constructor is given beside   *)
(* the tree built so far are drawn from the trees of fewer nodes.          *)
(***************************************************************************)
\* The expressions without child expressions that the leaf constructors
\* build: a variable of every type, an int literal and the null literal.
Leaves ==
    {Variable("x", t) : t \in Types} \cup {Literal("0", "int"), NullLiteral}

RECURSIVE Nodes(_), NodesOfAll(_)

\* The number of nodes of the argument list a.
NodesOfAll(a) ==
    IF a = <<>> THEN 0 ELSE Nodes(Head(a)) + NodesOfAll(Tail(a))

\* The number of nodes of the tree e.
Nodes(e) ==
    CASE e.class = "MethodCall"      -> 1 + Nodes(e.receiver) + NodesOfAll(e.args)
      [] e.class = "ConstructorCall" -> 1 + NodesOfAll(e.args)
      [] OTHER                       -> 1

RECURSIVE TreesOfSize(_), ForestsOfSize(_)

\* The argument lists whose expressions have n nodes in all.
ForestsOfSize(n) ==
    IF n = 0
    THEN {<<>>}
    ELSE UNION {{<<t>> \o f : t \in TreesOfSize(k), f \in ForestsOfSize(n - k)} :
                k \in 1..n}

\* The expression trees of exactly n nodes.
TreesOfSize(n) ==
    IF n = 1
    THEN Leaves \cup {ConstructorCall(t, <<>>) : t \in Types}
    ELSE UNION {{MethodCall(r, m, a) :
                    r \in TreesOfSize(k), m \in MethodNames,
                    a \in ForestsOfSize(n - 1 - k)} : k \in 1..(n - 1)}
         \cup {ConstructorCall(t, a) : t \in Types, a \in ForestsOfSize(n - 1)}

\* ArgLists[n]: the argument lists of n nodes in all that can stand beside
\* a tree already built.
ArgLists == [n \in 0..(MaxNodes - 2) |-> ForestsOfSize(n)]

\* The list a with the expression e put in after its first k elements.
InsertAt(a, k, e) == SubSeq(a, 1, k) \o <<e>> \o SubSeq(a, k + 1, Len(a))

(***************************************************************************)
(* The state machine: a tree is built, then one operation is applied to    *)
(* its root.                                                               *)
(***************************************************************************)
NoResult == [outcome |-> "none", calls |-> <<>>]

\* Variable(...), Literal(...), NullLiteral() and a ConstructorCall without
\* arguments need no expression built before them.
Init ==
    /\ expr \in Leaves \cup {ConstructorCall(t, <<>>) : t \in Types}
    /\ pc = "built"
    /\ result = NoResult

\* MethodCall(receiver, method_name, *args) with the tree built so far as
\* the receiver.
NewMethodCall ==
    /\ pc = "built"
    /\ Nodes(expr) < MaxNodes
    /\ \E method_name \in MethodNames, n \in 0..(MaxNodes - 1 - Nodes(expr)) :
         \E args \in ArgLists[n] :
            expr' = MethodCall(expr, method_name, args)
    /\ UNCHANGED <<pc, result>>

\* ConstructorCall(instantiated_type, *args) with the tree built so far as
\* one of the arguments.
NewConstructorCall ==
    /\ pc = "built"
    /\ Nodes(expr) < MaxNodes
    /\ \E instantiated_type \in Types, n \in 0..(MaxNodes - 1 - Nodes(expr)) :
         \E others \in ArgLists[n] :
            \E k \in 0..Len(others) :
               expr' = ConstructorCall(instantiated_type, InsertAt(others, k, expr))
    /\ UNCHANGED <<pc, result>>

\* expr.check_types()
CheckTypes ==
    /\ pc = "built"
    /\ pc' = "checked"
    /\ result' = check_types(expr, <<>>)
    /\ UNCHANGED expr

\* expr.static_type()
StaticType ==
    /\ pc = "built"
    /\ pc' = "typed"
    /\ result' = Outcome(static_type(expr), static_calls(expr, <<>>))
    /\ UNCHANGED expr

Next == NewMethodCall \/ NewConstructorCall \/ CheckTypes \/ StaticType

Spec == Init /\ [][Next]_vars

(***************************************************************************)
(* Vocabulary of the properties, stated on the class table and not on the  *)
(* checker's own predicates.                                               *)
(***************************************************************************)
IsCall(e) == e.class \in {"MethodCall", "ConstructorCall"}

\* The receiver of the method call e has a class type that declares the
\* method e names.
MethodResolves(e) ==
    /\ e.class = "MethodCall"
    /\ static_type(e.receiver) \in ClassTypes
    /\ e.method_name \in DOMAIN ClassTable[static_type(e.receiver)].methods

\* The constructor call e instantiates a class type.
ConstructorResolves(e) ==
    /\ e.class = "ConstructorCall"
    /\ e.instantiated_type \in ClassTypes

Resolves(e) == MethodResolves(e) \/ ConstructorResolves(e)

\* The declared parameter types of the call e, which resolves.
DeclaredParams(e) ==
    IF e.class = "MethodCall"
    THEN ClassTable[static_type(e.receiver)].methods[e.method_name].argument_types
    ELSE ClassTable[e.instantiated_type].constructor.argument_types

ArityRight(e) == Len(e.args) = Len(DeclaredParams(e))

\* The expression a validates on its own.
Valid(a) == check_types(a, <<>>).outcome = Ok

\* Type p is a direct supertype of type t in the class table.
DirectSupertype(p, t) == t \in ClassTypes /\ p \in ClassTable[t].direct_supertypes

\* a validates and has the declared type p or a direct subtype of it.
PlainFit(a, p) ==
    /\ Valid(a)
    /\ (static_type(a) = p \/ DirectSupertype(p, static_type(a)))

\* a validates and has the null type.
NullArg(a) == Valid(a) /\ static_type(a) = NullType

\* Null is permitted at a position of declared type p of the call e: at
\* any position of a method call, at a non-primitive one of a constructor.
NullPermitted(e, p) == e.class = "MethodCall" \/ p \notin PrimitiveTypes

\* Argument i of the call e is one of a well-typed call.
Fits(e, i) ==
    \/ PlainFit(e.args[i], DeclaredParams(e)[i])
    \/ (NullArg(e.args[i]) /\ NullPermitted(e, DeclaredParams(e)[i]))

\* Argument i of e validates and is plain-fitting or null-typed.
FitsOrNull(e, i) ==
    PlainFit(e.args[i], DeclaredParams(e)[i]) \/ NullArg(e.args[i])

\* Every call the walk made went to the receiver's subtree.
OnlyReceiverVisited(calls) ==
    \A k \in 1..Len(calls) : calls[k].path[1] = 0

RECURSIVE DescendantsValid(_), AllValid(_)

\* Every expression of the list a, and every descendant of it, validates.
AllValid(a) ==
    a = <<>> \/ (Valid(Head(a)) /\ DescendantsValid(Head(a)) /\ AllValid(Tail(a)))

\* Every child expression of e, at every depth, validates on its own.
DescendantsValid(e) ==
    CASE e.class = "MethodCall"      ->
            Valid(e.receiver) /\ DescendantsValid(e.receiver) /\ AllValid(e.args)
      [] e.class = "ConstructorCall" -> AllValid(e.args)
      [] OTHER                       -> TRUE

(***************************************************************************)
(* C1                                                                      *)
(***************************************************************************)
\* C1: a method call on a receiver whose static type is int, boolean or
\* double fails with NotInstantiableReceiver, and a constructor call on one
\* of these types fails with NotInstantiableType, whatever the method name
\* and the arguments are.
C1_PrimitivesRejected ==
    pc = "checked" =>
        /\ (expr.class = "MethodCall"
                /\ static_type(expr.receiver) \in {"int", "boolean", "double"})
            => result.outcome = NotInstantiableReceiver
        /\ (expr.class = "ConstructorCall"
                /\ expr.instantiated_type \in {"int", "boolean", "double"})
            => result.outcome = NotInstantiableType

\* A checked method call on a primitive receiver with an argument that
\* does not validate.
C1_Witness ==
    /\ pc = "checked"
    /\ expr.class = "MethodCall"
    /\ static_type(expr.receiver) \in {"int", "boolean", "double"}
    /\ Len(expr.args) = 1
    /\ ~Valid(expr.args[1])
    /\ result.outcome = NotInstantiableReceiver

(***************************************************************************)
(* C2                                                                      *)
(***************************************************************************)
\* C2: check_types() either succeeds or fails with one of the five kinds
\* of compile-time type error, on every expression tree.
C2_OnlyTypedErrors ==
    pc = "checked" => result.outcome \in {Ok} \cup JavaTypeError

(***************************************************************************)
(* C3                                                                      *)
(***************************************************************************)
\* C3: when check_types() succeeds on an expression, it succeeds on each
\* of its child expressions at every depth, receivers included.
C3_RootValidatesChildren ==
    (pc = "checked" /\ result.outcome = Ok) => DescendantsValid(expr)

(***************************************************************************)
(* C4                                                                      *)
(***************************************************************************)
\* C4: a call that resolves (a method its receiver's class declares, a
\* constructor of a class) with a number of arguments other than the
\* declared one fails with ArityMismatch, and no argument subtree has been
\* visited by then.
C4_ArityBeforeArguments ==
    (pc = "checked" /\ IsCall(expr) /\ Resolves(expr) /\ ~ArityRight(expr)) =>
        /\ result.outcome = ArityMismatch
        /\ OnlyReceiverVisited(result.calls)

\* A checked method call with too many arguments, one of which does not
\* validate.
C4_Witness ==
    /\ pc = "checked"
    /\ MethodResolves(expr)
    /\ Len(expr.args) > Len(DeclaredParams(expr))
    /\ \E i \in 1..Len(expr.args) : ~Valid(expr.args[i])
    /\ result.outcome = ArityMismatch

(***************************************************************************)
(* C5                                                                      *)
(***************************************************************************)
\* C5: in a call that resolves, with the declared number of arguments, all
\* of them valid and each either null-typed or fitting its position without
\* null: if a null-typed argument stands at a primitive position, a
\* constructor call fails with ArgumentTypeMismatch and a method call
\* succeeds; if null-typed arguments stand at reference positions only,
\* both succeed.
C5_NullAsymmetry ==
    (/\ pc = "checked" /\ IsCall(expr) /\ Resolves(expr) /\ ArityRight(expr)
     /\ \A i \in 1..Len(expr.args) : FitsOrNull(expr, i)
     /\ \E i \in 1..Len(expr.args) : NullArg(expr.args[i]))
    =>
    IF \E i \in 1..Len(expr.args) :
          NullArg(expr.args[i]) /\ DeclaredParams(expr)[i] \in PrimitiveTypes
    THEN /\ expr.class = "ConstructorCall" => result.outcome = ArgumentTypeMismatch
         /\ expr.class = "MethodCall" => result.outcome = Ok
    ELSE result.outcome = Ok

\* A checked constructor call with null at a primitive position.
C5_Witness ==
    /\ pc = "checked"
    /\ ConstructorResolves(expr) /\ ArityRight(expr)
    /\ \E i \in 1..Len(expr.args) :
          NullArg(expr.args[i]) /\ DeclaredParams(expr)[i] \in PrimitiveTypes
    /\ result.outcome = ArgumentTypeMismatch

(***************************************************************************)
(* C6                                                                      *)
(***************************************************************************)
\* B is a direct supertype of A, C one of B and not of A; all distinct.
Chain(A, B, C) ==
    /\ A # B /\ B # C /\ A # C
    /\ DirectSupertype(B, A)
    /\ DirectSupertype(C, B)
    /\ ~DirectSupertype(C, A)

\* C6: in a call that resolves, with the declared number of arguments and
\* every other argument fitting its position, a valid argument of static
\* type A is accepted at a position of declared type B (the call succeeds)
\* and rejected with ArgumentTypeMismatch at a position of declared type C,
\* for every chain A, B, C of direct supertypes.
C6_SingleLevelWidening ==
    (pc = "checked" /\ IsCall(expr) /\ Resolves(expr) /\ ArityRight(expr)) =>
        \A i \in 1..Len(expr.args) :
            \A A \in Types, B \in Types, C \in Types :
                (/\ Chain(A, B, C)
                 /\ Valid(expr.args[i])
                 /\ static_type(expr.args[i]) = A
                 /\ \A j \in 1..Len(expr.args) : j # i => Fits(expr, j))
                =>
                /\ DeclaredParams(expr)[i] = B => result.outcome = Ok
                /\ DeclaredParams(expr)[i] = C
                        => result.outcome = ArgumentTypeMismatch

\* A checked method call whose argument has a type two levels below the
\* declared one.
C6_Witness ==
    /\ pc = "checked"
    /\ MethodResolves(expr) /\ ArityRight(expr)
    /\ \E i \in 1..Len(expr.args) :
          \E A \in Types, B \in Types :
             /\ Chain(A, B, DeclaredParams(expr)[i])
             /\ Valid(expr.args[i])
             /\ static_type(expr.args[i]) = A
    /\ result.outcome = ArgumentTypeMismatch

(***************************************************************************)
(* C7                                                                      *)
(***************************************************************************)
\* C7: a call that resolves, with the declared number of arguments, every
\* argument valid and of the declared type, of a direct subtype of it, or
\* null-typed where null is permitted, succeeds.
C7_WellTypedCallsSucceed ==
    (/\ pc = "checked" /\ IsCall(expr) /\ Resolves(expr) /\ ArityRight(expr)
     /\ \A i \in 1..Len(expr.args) : Fits(expr, i))
    => result.outcome = Ok

\* A checked method call that succeeds with an argument of a direct
\* subtype of the declared type.
C7_Witness ==
    /\ pc = "checked"
    /\ MethodResolves(expr) /\ ArityRight(expr)
    /\ Len(expr.args) >= 1
    /\ \A i \in 1..Len(expr.args) : Fits(expr, i)
    /\ \E i \in 1..Len(expr.args) :
          DirectSupertype(DeclaredParams(expr)[i], static_type(expr.args[i]))
    /\ result.outcome = Ok

(***************************************************************************)
(* C8                                                                      *)
(***************************************************************************)
\* C8: static_type() returns a type and raises nothing, on every
\* expression tree.
C8_StaticTypeNeverFails ==
    pc = "typed" => result.outcome \in Types

(***************************************************************************)
(* C9                                                                      *)
(***************************************************************************)
\* C9: a method call on a receiver of non-primitive static type T naming a
\* method T does not declare fails with UnknownMethod, whatever the
\* arguments are, and no argument subtree has been visited by then.
C9_UnknownMethod ==
    (/\ pc = "checked"
     /\ expr.class = "MethodCall"
     /\ static_type(expr.receiver) \in ClassTypes \cup {NullType}
     /\ ~MethodResolves(expr))
    =>
    /\ result.outcome = UnknownMethod
    /\ OnlyReceiverVisited(result.calls)

\* A checked call of a method the receiver's class does not declare, with
\* an argument that does not validate.
C9_Witness ==
    /\ pc = "checked"
    /\ expr.class = "MethodCall"
    /\ static_type(expr.receiver) \in ClassTypes
    /\ ~MethodResolves(expr)
    /\ Len(expr.args) = 1
    /\ ~Valid(expr.args[1])
    /\ result.outcome = UnknownMethod

(***************************************************************************)
(* C10                                                                     *)
(***************************************************************************)
\* Argument i of the call e fails its own validation or has a static type
\* that is not assignable to the declared type of its position.
Offends(e, i) == ~Fits(e, i)

\* The lowest offending position of e.
FirstOffender(e) ==
    CHOOSE i \in 1..Len(e.args) :
        Offends(e, i) /\ \A j \in 1..(i - 1) : ~Offends(e, j)

\* The error of position i: the argument's own, or ArgumentTypeMismatch.
ErrorOfPosition(e, i) ==
    IF Valid(e.args[i])
    THEN ArgumentTypeMismatch
    ELSE check_types(e.args[i], <<>>).outcome

\* C10: a call that resolves, with the declared number of arguments,
\* reports the error of its lowest offending argument position, whatever
\* stands at the positions after it.
C10_FirstErrorLeftToRight ==
    (/\ pc = "checked" /\ IsCall(expr) /\ Resolves(expr) /\ ArityRight(expr)
     /\ \E i \in 1..Len(expr.args) : Offends(expr, i))
    => result.outcome = ErrorOfPosition(expr, FirstOffender(expr))

====
